---- MODULE Spec2Model ----
(***************************************************************************)
(* Model of src/src/moondream.ts: the `vl` client (constructor,            *)
(* encodeImage, makeRequest, streamResponse and the four dispatchers).     *)
(*                                                                         *)
(* Text is a sequence of one-character strings.  A response body is a      *)
(* sequence of bytes; an ASCII byte is written as its character, and the   *)
(* two bytes of the UTF-8 encoding of U+00E9 are LeadByte and ContByte.    *)
(***************************************************************************)
EXTENDS Integers, Sequences, FiniteSets

\* ------------------------------------------------------------------------
\* Bounds of the model
\* ------------------------------------------------------------------------
MaxLines == 2

\* ------------------------------------------------------------------------
\* Characters and bytes
\* ------------------------------------------------------------------------
NL == "\n"
Quote == "\""
LeadByte == "0xC3"
ContByte == "0xA9"
EAcute == "U+00E9"
Replacement == "U+FFFD"

Indices(s) == [i \in 1..Len(s) |-> i]

\* chunk.toString() (L121), Buffer to string: UTF-8 decoding of ONE chunk.
\* A lead byte whose continuation byte is not in the same chunk, and a
\* continuation byte without its lead byte, each decode to U+FFFD.
ChunkToString(b) ==
  LET n == Len(b)
      PairStart(i) == b[i] = LeadByte /\ i < n /\ b[i + 1] = ContByte
      PairEnd(i) == b[i] = ContByte /\ i > 1 /\ b[i - 1] = LeadByte
      Char(i) == IF PairStart(i) THEN EAcute
                 ELSE IF b[i] \in {LeadByte, ContByte} THEN Replacement
                 ELSE b[i]
      at == SelectSeq(Indices(b), LAMBDA i : ~PairEnd(i))
  IN  IF \A i \in 1..n : b[i] \notin {LeadByte, ContByte} THEN b
      ELSE [j \in 1..Len(at) |-> Char(at[j])]

\* String.prototype.split('\n'): always at least one segment.
Split(s) ==
  LET n == Len(s)
      nl == SelectSeq(Indices(s), LAMBDA i : s[i] = NL)
      m == Len(nl)
  IN  IF m = 0 THEN <<s>>
      ELSE [j \in 1..(m + 1) |->
              SubSeq(s, IF j = 1 THEN 1 ELSE nl[j - 1] + 1,
                        IF j = m + 1 THEN n ELSE nl[j] - 1)]

\* String.prototype.startsWith / slice(n)
StartsWith(s, p) == Len(s) >= Len(p) /\ SubSeq(s, 1, Len(p)) = p
Slice(s, n) == SubSeq(s, n + 1, Len(s))

DataPrefix == <<"d", "a", "t", "a", ":", " ">>
ChunkKey == <<"c", "h", "u", "n", "k">>
CompletedKey == <<"c", "o", "m", "p", "l", "e", "t", "e", "d">>

\* ------------------------------------------------------------------------
\* JSON.parse, for texts over the alphabet of the model (no digits, no
\* brackets, no backslash, no minus sign): a value is an object, a string
\* or one of the literals true, false, null.
\* ------------------------------------------------------------------------
LitTrue == <<"t", "r", "u", "e">>
LitFalse == <<"f", "a", "l", "s", "e">>
LitNull == <<"n", "u", "l", "l">>

Undefined == [t |-> "undefined"]
ParseFail == [ok |-> FALSE]
ParseOk(v, next) == [ok |-> TRUE, val |-> v, next |-> next]

\* the members of {}
EmptyObject == [k \in {} |-> Undefined]

IsWs(c) == c = " "

\* the parsers read s from index i and return the index after the value
RECURSIVE SkipWs(_, _)
SkipWs(s, i) == IF i <= Len(s) /\ IsWs(s[i]) THEN SkipWs(s, i + 1) ELSE i

At(s, i, c) == i <= Len(s) /\ s[i] = c
AtWord(s, i, w) == i + Len(w) - 1 <= Len(s) /\ SubSeq(s, i, i + Len(w) - 1) = w

\* the characters of a string literal after its opening quote
ParseStringBody(s, i) ==
  LET q == {j \in i..Len(s) : s[j] = Quote} IN
  IF q = {} THEN ParseFail
  ELSE LET j == CHOOSE x \in q : \A y \in q : x <= y
       IN  ParseOk([t |-> "string", s |-> SubSeq(s, i, j - 1)], j + 1)

\* obj with key set to v (a later duplicate key overrides an earlier one)
PutKey(m, key, v) ==
  [k \in (DOMAIN m) \cup {key} |-> IF k = key THEN v ELSE m[k]]

RECURSIVE ParseValue(_, _)
RECURSIVE ParseMembers(_, _, _)

ParseValue(s, i0) ==
  LET i == SkipWs(s, i0) IN
  IF i > Len(s) THEN ParseFail
  ELSE IF s[i] = Quote THEN ParseStringBody(s, i + 1)
  ELSE IF AtWord(s, i, LitTrue) THEN ParseOk([t |-> "true"], i + 4)
  ELSE IF AtWord(s, i, LitFalse) THEN ParseOk([t |-> "false"], i + 5)
  ELSE IF AtWord(s, i, LitNull) THEN ParseOk([t |-> "null"], i + 4)
  ELSE IF s[i] = "{"
       THEN LET i1 == SkipWs(s, i + 1) IN
            IF At(s, i1, "}")
            THEN ParseOk([t |-> "object", m |-> EmptyObject], i1 + 1)
            ELSE ParseMembers(s, i1, EmptyObject)
  ELSE ParseFail

\* member (',' member)* '}' with the members parsed so far in m
ParseMembers(s, i0, m) ==
  LET i == SkipWs(s, i0) IN
  IF ~At(s, i, Quote) THEN ParseFail
  ELSE LET k == ParseStringBody(s, i + 1) IN
       IF ~k.ok THEN ParseFail
       ELSE LET i1 == SkipWs(s, k.next) IN
            IF ~At(s, i1, ":") THEN ParseFail
            ELSE LET v == ParseValue(s, i1 + 1) IN
                 IF ~v.ok THEN ParseFail
                 ELSE LET i2 == SkipWs(s, v.next)
                          m2 == PutKey(m, k.val.s, v.val)
                      IN  IF At(s, i2, "}")
                          THEN ParseOk([t |-> "object", m |-> m2], i2 + 1)
                          ELSE IF At(s, i2, ",")
                               THEN ParseMembers(s, i2 + 1, m2)
                               ELSE ParseFail

\* JSON.parse(s): ok is FALSE where JSON.parse throws a SyntaxError
JSONParse(s) ==
  LET r == ParseValue(s, 1) IN
  IF r.ok /\ SkipWs(s, r.next) > Len(s) THEN [ok |-> TRUE, val |-> r.val]
  ELSE ParseFail

\* `key in v`: a TypeError when v is not an object
InThrows(v) == v.t # "object"
HasKey(v, key) == v.t = "object" /\ key \in DOMAIN v.m
\* v.key for an object v
GetKey(v, key) == IF HasKey(v, key) THEN v.m[key] ELSE Undefined
\* JavaScript truthiness
Truthy(v) ==
  CASE v.t = "true" -> TRUE
    [] v.t = "object" -> TRUE
    [] v.t = "string" -> v.s # <<>>
    [] OTHER -> FALSE

\* ------------------------------------------------------------------------
\* State
\* ------------------------------------------------------------------------
VARIABLES
  config,    \* the MoondreamVLConfig given to the constructor
  apiKey,    \* vl.apiKey
  endpoint,  \* vl.endpoint
  cpc,       \* the client and its call: "new", "ctorThrew", "idle",
             \*   "encoding", "encoded", "requesting", "returned", "rejected"
  call,      \* the request of the call: [op, image, stream]
  encoded,   \* encodeImage of the call: how it settled (st: "none", "ok",
             \*   "failed"), the value it returned, the calls of the codec
  sent,      \* how many HTTP requests the client has issued
  reqStream, \* makeRequest: its stream parameter
  promise,   \* makeRequest: its promise, "none", "pending", "resolved", "rejected"
  response,  \* makeRequest: what the promise resolved with, or its error
  status,    \* res.statusCode
  data,      \* makeRequest: let data (L92)
  result,    \* what the call returned to its caller
  text,      \* the bytes of the response body, as the server sends them
  pos,       \* how many of them have arrived at the client
  src,       \* the response: "none", "open", "ended" or "errored" (aborted)
  buffer,    \* streamResponse: let buffer (L117)
  lines,     \* streamResponse: the lines of the for-of loop still to visit
  cur,       \* streamResponse: const data of the frame suspended at a yield
  pc,        \* streamResponse: "idle", "await", "yield", "yieldFlush",
             \*                 "done" (returned), "failed" (threw)
  emitted,   \* the fragments the generator has yielded, in order
  err,       \* why the generator threw: "none", "parse", "source"
  seen,      \* history: the lines the for-of loops have visited, in order
  late,      \* history: bytes that arrived after the generator terminated
  received,  \* history: the text of the chunks the generator has received
  other      \* the generator of another streaming call on the same client,
             \*   while this one is the one that runs

streamVars == <<text, pos, src, buffer, lines, cur, pc, emitted, err, seen, late,
                received, other>>

clientVars == <<config, apiKey, endpoint, cpc, call, encoded, sent, reqStream,
                promise, response, status, data, result>>

vars == <<clientVars, streamVars>>

Terminated == pc \in {"done", "failed"}

\* ------------------------------------------------------------------------
\* streamResponse (L116-161)
\* ------------------------------------------------------------------------
\* a decoder that takes every line for a frame
IsDataLine_Any(line) == TRUE

\* L126 / L146: line.startsWith('data: ')
IsDataLine(line) == StartsWith(line, DataPrefix)

\* L128 / L148: JSON.parse(line.slice(6))
ParseFrame(line) == JSONParse(Slice(line, 6))

\* a decoder that never looks at the completion flag
FrameCompleted_Never(frame, mode) == FALSE

\* L132: if (data.completed), which only the loop over the chunks has
FrameCompleted(frame, mode) == mode = "loop" /\ Truthy(GetKey(frame, CompletedKey))

\* L123: buffer = lines.pop() || ''
Residual(ls) == ls[Len(ls)]

\* a decoder that reads the last segment and does not take it off the lines
CompleteLines_NoPop(ls) == ls

\* L122-123: the complete lines, all segments but the last
CompleteLines(ls) == SubSeq(ls, 1, Len(ls) - 1)

\* a decoder that drops what is left in the buffer at the end of the stream
FlushLines_Drop(buf) == <<>>

\* L143-144: if (buffer) { const lines = buffer.split('\n')
FlushLines(buf) == IF buf # <<>> THEN Split(buf) ELSE <<>>

\* where the generator stops next
Stop(p, ls, out, frame, e, sn) ==
  [pc |-> p, lines |-> ls, out |-> out, cur |-> frame, err |-> e, seen |-> sn]

RECURSIVE RunLines(_, _, _)

\* a decoder that swallows the error and goes on with the next line
OnParseError_Skip(ls, mode, sn) == RunLines(ls, mode, sn)

\* a decoder whose catch block yields the text of the line it could not
\* parse and then throws
OnParseError_Partial(ls, mode, sn) ==
  Stop("failed", <<>>, <<[t |-> "string", s |-> sn[Len(sn)]]>>, Undefined, "parse", sn)

\* L135-137 / L152-154 and L158-160: the catch blocks rethrow
OnParseError(ls, mode, sn) == Stop("failed", <<>>, <<>>, Undefined, "parse", sn)

\* a decoder that leaves the loop over the lines, and not the generator, at
\* a completed frame
AfterFrame_Break(frame, ls, mode, sn) ==
  IF FrameCompleted(frame, mode)
  THEN Stop("await", <<>>, <<>>, Undefined, "none", sn)
  ELSE RunLines(ls, mode, sn)

\* L132-134 and the end of one iteration of the for-of loop
AfterFrame(frame, ls, mode, sn) ==
  IF FrameCompleted(frame, mode)
  THEN Stop("done", <<>>, <<>>, Undefined, "none", sn)
  ELSE RunLines(ls, mode, sn)

\* a decoder that looks at the completion flag before it yields the chunk
RunLines_FlagFirst(ls, mode, sn) ==
  IF ls = <<>>
  THEN Stop(IF mode = "loop" THEN "await" ELSE "done", <<>>, <<>>,
            Undefined, "none", sn)
  ELSE LET line == Head(ls)
           sn1 == Append(sn, line)
       IN  IF ~IsDataLine(line) THEN RunLines(Tail(ls), mode, sn1)
           ELSE LET p == ParseFrame(line) IN
                IF ~p.ok \/ InThrows(p.val)
                THEN OnParseError(Tail(ls), mode, sn1)
                ELSE IF FrameCompleted(p.val, mode)
                     THEN Stop("done", <<>>, <<>>, Undefined, "none", sn1)
                     ELSE IF HasKey(p.val, ChunkKey)
                          THEN Stop(IF mode = "loop" THEN "yield" ELSE "yieldFlush",
                                    Tail(ls), <<GetKey(p.val, ChunkKey)>>,
                                    p.val, "none", sn1)
                          ELSE RunLines(Tail(ls), mode, sn1)

\* L125-139 (mode "loop") and L145-156 (mode "flush"): run the for-of loop
\* over ls up to the next yield, return or throw
RunLines(ls, mode, sn) ==
  IF ls = <<>>
  THEN Stop(IF mode = "loop" THEN "await" ELSE "done", <<>>, <<>>,
            Undefined, "none", sn)
  ELSE LET line == Head(ls)
           sn1 == Append(sn, line)
       IN  IF ~IsDataLine(line) THEN RunLines(Tail(ls), mode, sn1)
           ELSE LET p == ParseFrame(line) IN
                IF ~p.ok \/ InThrows(p.val)
                THEN OnParseError(Tail(ls), mode, sn1)
                ELSE IF HasKey(p.val, ChunkKey)
                     THEN Stop(IF mode = "loop" THEN "yield" ELSE "yieldFlush",
                               Tail(ls), <<GetKey(p.val, ChunkKey)>>,
                               p.val, "none", sn1)
                     ELSE AfterFrame(p.val, Tail(ls), mode, sn1)

\* the generator moves to stop s
Goto(s) ==
  /\ pc' = s.pc
  /\ lines' = s.lines
  /\ cur' = s.cur
  /\ err' = s.err
  /\ seen' = s.seen
  /\ emitted' = emitted \o s.out

\* L120-125: the for await loop receives the next k bytes as one chunk
Chunk(k) ==
  /\ pc = "await"
  /\ src = "open"
  /\ pos + k <= Len(text)
  /\ \E str \in {ChunkToString(SubSeq(text, pos + 1, pos + k))} :
       \E ls \in {Split(buffer \o str)} :
          /\ buffer' = Residual(ls)
          /\ Goto(RunLines(CompleteLines(ls), "loop", seen))
          /\ received' = received \o str
  /\ pos' = pos + k
  /\ UNCHANGED <<text, src, late, other>>
  /\ UNCHANGED clientVars

\* L130 / L150: the consumer asks for the next element and the generator
\* resumes after its yield
Resume ==
  /\ pc \in {"yield", "yieldFlush"}
  /\ Goto(AfterFrame(cur, lines, IF pc = "yield" THEN "loop" ELSE "flush", seen))
  /\ UNCHANGED <<text, pos, src, buffer, late, received, other>>
  /\ UNCHANGED clientVars

\* L120 and L142-157: the response ends, the for await loop exits and the
\* rest of the buffer is handled
End ==
  /\ pc = "await"
  /\ src = "open"
  /\ pos = Len(text)
  /\ src' = "ended"
  /\ Goto(RunLines(FlushLines(buffer), "flush", seen))
  /\ UNCHANGED <<text, pos, buffer, late, received, other>>
  /\ UNCHANGED clientVars

\* a decoder that does not hear of the failure of the response and goes on
\* waiting for the next chunk
SourceError_Unheard ==
  /\ pc = "await"
  /\ src = "open"
  /\ src' = "errored"
  /\ UNCHANGED <<text, pos, buffer, lines, cur, pc, emitted, err, seen, late,
                 received, other>>
  /\ UNCHANGED clientVars

\* L120 and L158-160: the response is destroyed with an error before its
\* end, the for await loop throws
SourceError ==
  /\ pc = "await"
  /\ src = "open"
  /\ src' = "errored"
  /\ Goto(Stop("failed", <<>>, <<>>, Undefined, "source", seen))
  /\ UNCHANGED <<text, pos, buffer, late, received, other>>
  /\ UNCHANGED clientVars

\* what the server still sends once the generator has terminated arrives
\* at the client: no code of streamResponse runs on it
LateBytes ==
  /\ Terminated
  /\ src = "open"
  /\ pos < Len(text)
  /\ pos' = Len(text)
  /\ late' = late + (Len(text) - pos)
  /\ UNCHANGED <<text, src, buffer, lines, cur, pc, emitted, err, seen, received, other>>
  /\ UNCHANGED clientVars

\* ------------------------------------------------------------------------
\* Response bodies
\* ------------------------------------------------------------------------
Str(s) == <<Quote>> \o s \o <<Quote>>
Member(key, v) == Str(key) \o <<":">> \o v
Obj1(m) == <<"{">> \o m \o <<"}">>
Obj2(m1, m2) == <<"{">> \o m1 \o <<",">> \o m2 \o <<"}">>
Data(payload) == DataPrefix \o payload

\* data: {"chunk":"x","completed":false}
LineChunkX == Data(Obj2(Member(ChunkKey, Str(<<"x">>)), Member(CompletedKey, LitFalse)))
\* data: {"chunk":"<U+00E9>"}, the character as its two UTF-8 bytes
LineChunkE == Data(Obj1(Member(ChunkKey, Str(<<LeadByte, ContByte>>))))
\* data: {"completed":true}
LineDone == Data(Obj1(Member(CompletedKey, LitTrue)))
\* data: {"chunk":"y","completed":true}
LineChunkDone == Data(Obj2(Member(ChunkKey, Str(<<"y">>)), Member(CompletedKey, LitTrue)))
\* data: {        (not JSON)
LineBad == Data(<<"{">>)
\* data: null     (JSON, but no object)
LineNull == Data(LitNull)
\* a comment line of an event stream, and an empty line
LineComment == <<":">>
LineEmpty == <<>>
\* {"error":"x"}  (a JSON error body, no frame)
LineError == Obj1(Member(<<"e", "r", "r", "o", "r">>, Str(<<"x">>)))

LineSet == {LineChunkX, LineChunkE, LineDone, LineChunkDone, LineBad,
            LineNull, LineComment, LineEmpty}

RECURSIVE Join(_)
Join(ls) == IF ls = <<>> THEN <<>> ELSE Head(ls) \o <<NL>> \o Join(Tail(ls))

\* up to MaxLines lines, the last one with or without its line break
Texts ==
  {<<>>} \cup
  UNION {{Join(ls), SubSeq(Join(ls), 1, Len(Join(ls)) - 1)} :
           ls \in UNION {[1..n -> LineSet] : n \in 1..MaxLines}}

\* the bodies a server answers a call with
\* {"caption":"<U+00E9>","answer":"x"}
BodyResult == Obj2(Member(<<"c", "a", "p", "t", "i", "o", "n">>, Str(<<LeadByte, ContByte>>)),
                   Member(<<"a", "n", "s", "w", "e", "r">>, Str(<<"x">>)))
BodyFrames == LineChunkDone \o <<NL>> \o LineComment \o <<NL>>
\* a frame with a chunk and then a frame that is cut off
BodyCutOff == LineChunkX \o <<NL>> \o LineBad

Bodies == {<<>>, BodyResult, LineError, LitNull, LineBad, BodyFrames, BodyCutOff}

Statuses == {200, 201, 401}

\* ------------------------------------------------------------------------
\* constructor (L28-36)
\* ------------------------------------------------------------------------
Absent == "<undefined>"
DEFAULT_ENDPOINT == "https://api.moondream.ai/v1"
CustomEndpoint == "http://localhost:2020/v1"

Configs == [apiKey : {Absent, "", "key"},
            endpoint : {Absent, "", DEFAULT_ENDPOINT, CustomEndpoint}]

\* a || b for an optional string a
OrElse(a, b) == IF a = Absent \/ a = "" THEN b ELSE a

\* a constructor that wants an apiKey for every endpoint
CtorThrows_KeyOnly(k, e) == k = ""

\* L31: this.apiKey === '' && this.endpoint === DEFAULT_ENDPOINT
CtorThrows(k, e) == k = "" /\ e = DEFAULT_ENDPOINT

Construct ==
  /\ cpc = "new"
  /\ apiKey' = OrElse(config.apiKey, "")
  /\ endpoint' = OrElse(config.endpoint, DEFAULT_ENDPOINT)
  /\ cpc' = IF CtorThrows(apiKey', endpoint') THEN "ctorThrew" ELSE "idle"
  /\ UNCHANGED <<config, call, encoded, sent, reqStream, promise, response,
                 status, data, result>>
  /\ UNCHANGED streamVars

\* ------------------------------------------------------------------------
\* The dispatchers caption, query, detect, point (L163-257) up to their
\* call of makeRequest, and encodeImage (L38-68)
\* ------------------------------------------------------------------------
Ops == {"caption", "query", "detect", "point"}

\* the images of a request: a Base64EncodedImage, which carries imageUrl (a
\* sentinel URL, the empty URL), and a Buffer, which does not
SentinelImage == [imageUrl |-> "sentinel"]
EmptyUrlImage == [imageUrl |-> ""]
RawBuffer == [buffer |-> "raw"]
Images == {SentinelImage, EmptyUrlImage, RawBuffer}

\* request.image: an image, or none
\* request.stream: true, false or not given
Requests ==
  {r \in [op : Ops, image : Images \cup {Undefined}, stream : {"true", "false", Absent}] :
     r.image = Undefined => r.op = "query"}

\* what the image codec does with a Buffer: Jimp.read throws (L47), the
\* bitmap has no width or height (L52), getBufferAsync throws (L57), or a
\* JPEG comes out
CodecOutcomes == {"readThrows", "noDimensions", "encodeThrows", "jpeg"}

\* L59-62: the data URL of the JPEG of the Buffer
JpegImage == [imageUrl |-> "data:image/jpeg;base64,raw"]

\* an encodeImage that takes an empty imageUrl for no imageUrl
HasImageUrl_Truthy(image) == "imageUrl" \in DOMAIN image /\ image.imageUrl # ""

\* L41: 'imageUrl' in image
HasImageUrl(image) == "imageUrl" \in DOMAIN image

\* L41-43 returns the image itself and the codec is not called; L45-67 hand
\* anything else to the codec and return the data URL or throw
EncodeImage(image, codec) ==
  IF HasImageUrl(image) THEN [st |-> "ok", val |-> image, codec |-> 0]
  ELSE IF codec = "jpeg" THEN [st |-> "ok", val |-> JpegImage, codec |-> 1]
  ELSE [st |-> "failed", val |-> Undefined, codec |-> 1]

\* no encodeImage yet
NotEncoded == [st |-> "none", val |-> Undefined, codec |-> 0]

\* L166, L195-196, L224, L243: does the dispatcher call encodeImage
NeedsEncode(r) == r.op # "query" \/ r.image # Undefined

\* a detect and a point that pass request.stream on as caption does
StreamArg_AnyOp(r) == r.stream = "true"

\* the third argument of makeRequest: request.stream in caption and query
\* (L178, L208), the default false in detect and point (L235, L254, L70)
StreamArg(r) == r.op \in {"caption", "query"} /\ r.stream = "true"

\* L180, L210: if (request.stream), which detect and point do not have
WantsStream(r) == r.op \in {"caption", "query"} /\ r.stream = "true"

\* L71-113: makeRequest builds the request and sends it (req.write, req.end)
MakeRequest(r) ==
  /\ sent' = sent + 1
  /\ reqStream' = StreamArg(r)
  /\ promise' = "pending"
  /\ cpc' = "requesting"

\* the caller calls one of caption, query, detect, point
Call(r) ==
  /\ cpc = "idle"
  /\ call' = r
  /\ IF NeedsEncode(r)
     THEN /\ cpc' = "encoding"
          /\ UNCHANGED <<sent, reqStream, promise>>
     ELSE MakeRequest(r)
  /\ UNCHANGED <<config, apiKey, endpoint, encoded, response, status, data, result>>
  /\ UNCHANGED streamVars

\* encodeImage settles
Encode(codec) ==
  /\ cpc = "encoding"
  /\ encoded' = EncodeImage(call.image, codec)
  /\ cpc' = "encoded"
  /\ UNCHANGED <<config, apiKey, endpoint, call, sent, reqStream, promise,
                 response, status, data, result>>
  /\ UNCHANGED streamVars

\* a dispatcher that goes on to makeRequest whatever encodeImage did
EncodeRejects_Never(e) == FALSE

\* `await this.encodeImage(...)` throws when encodeImage rejected
EncodeRejects(e) == e.st = "failed"

Failure(kind) == [kind |-> "error", error |-> kind]
NoResult == [kind |-> "none"]

\* L166-178 and the like: the dispatcher goes on after its await
AfterEncode ==
  /\ cpc = "encoded"
  /\ IF EncodeRejects(encoded)
     THEN /\ cpc' = "rejected"
          /\ result' = Failure("encoding")
          /\ UNCHANGED <<sent, reqStream, promise>>
     ELSE /\ MakeRequest(call)
          /\ UNCHANGED result
  /\ UNCHANGED <<config, apiKey, endpoint, call, encoded, response, status, data>>
  /\ UNCHANGED streamVars

\* ------------------------------------------------------------------------
\* makeRequest (L70-114): the callbacks of the request and of the response
\* ------------------------------------------------------------------------
\* L107-109: req.on('error'): the connection fails before any response, or
\* the socket fails with an error while the body is being buffered
ReqError ==
  /\ cpc = "requesting"
  /\ promise = "pending"
  /\ src \in {"none", "open"}
  /\ promise' = "rejected"
  /\ response' = Failure("network")
  /\ src' = "errored"
  /\ UNCHANGED <<config, apiKey, endpoint, cpc, call, encoded, sent, reqStream,
                 status, data, result>>
  /\ UNCHANGED <<text, pos, buffer, lines, cur, pc, emitted, err, seen, late, received, other>>

\* L86-93: the response callback, status st and body b are the server's
OnResponse(st, b) ==
  /\ cpc = "requesting"
  /\ promise = "pending"
  /\ src = "none"
  /\ status' = st
  /\ text' = b
  /\ src' = "open"
  /\ IF reqStream
     THEN /\ promise' = "resolved"
          /\ response' = [kind |-> "res"]
     ELSE UNCHANGED <<promise, response>>
  /\ UNCHANGED <<config, apiKey, endpoint, cpc, call, encoded, sent, reqStream,
                 data, result>>
  /\ UNCHANGED <<pos, buffer, lines, cur, pc, emitted, err, seen, late, received, other>>

\* L93: res.on('data', chunk => data += chunk), the next k bytes
OnData(k) ==
  /\ promise = "pending"
  /\ ~reqStream
  /\ src = "open"
  /\ pos + k <= Len(text)
  /\ data' = data \o ChunkToString(SubSeq(text, pos + 1, pos + k))
  /\ pos' = pos + k
  /\ UNCHANGED <<config, apiKey, endpoint, cpc, call, encoded, sent, reqStream,
                 promise, response, status, result>>
  /\ UNCHANGED <<text, src, buffer, lines, cur, pc, emitted, err, seen, late, received, other>>

\* an end callback that parses the body before it looks at the status
Settle_ParseFirst(st, d) ==
  LET p == JSONParse(d) IN
  IF ~p.ok THEN [promise |-> "rejected", response |-> Failure("parse")]
  ELSE IF st # 200 THEN [promise |-> "rejected", response |-> Failure("status")]
  ELSE [promise |-> "resolved", response |-> [kind |-> "json", val |-> p.val]]

\* L95-103: what the end callback settles the promise with
Settle(st, d) ==
  IF st # 200 THEN [promise |-> "rejected", response |-> Failure("status")]
  ELSE LET p == JSONParse(d) IN
       IF p.ok THEN [promise |-> "resolved", response |-> [kind |-> "json", val |-> p.val]]
       ELSE [promise |-> "rejected", response |-> Failure("parse")]

\* L94-104: res.on('end')
OnEnd ==
  /\ promise = "pending"
  /\ ~reqStream
  /\ src = "open"
  /\ pos = Len(text)
  /\ src' = "ended"
  /\ promise' = Settle(status, data).promise
  /\ response' = Settle(status, data).response
  /\ UNCHANGED <<config, apiKey, endpoint, cpc, call, encoded, sent, reqStream,
                 status, data, result>>
  /\ UNCHANGED <<text, pos, buffer, lines, cur, pc, emitted, err, seen, late, received, other>>

\* the server closes the connection after the response callback and before
\* 'end': res emits 'aborted' and 'close', req emits no 'error'; L93-94
\* listen to 'data' and 'end' only, so no callback of makeRequest runs
OnAborted ==
  /\ promise = "pending"
  /\ ~reqStream
  /\ src = "open"
  /\ src' = "errored"
  /\ UNCHANGED clientVars
  /\ UNCHANGED <<text, pos, buffer, lines, cur, pc, emitted, err, seen, late, received, other>>

\* ------------------------------------------------------------------------
\* The dispatchers after makeRequest (L178-184, L208-218, L235-237, L254-256)
\* ------------------------------------------------------------------------
ResultKey(op) ==
  CASE op = "caption" -> <<"c", "a", "p", "t", "i", "o", "n">>
    [] op = "query" -> <<"a", "n", "s", "w", "e", "r">>
    [] op = "detect" -> <<"o", "b", "j", "e", "c", "t", "s">>
    [] op = "point" -> <<"p", "o", "i", "n", "t", "s">>

\* response.caption and the like: a TypeError when response is null
Shape(op, v) ==
  IF v.t = "null" THEN Failure("type")
  ELSE [kind |-> "value", val |-> GetKey(v, ResultKey(op))]

\* the await of makeRequest returns or throws
AfterRequest ==
  /\ cpc = "requesting"
  /\ promise \in {"resolved", "rejected"}
  /\ IF promise = "rejected"
     THEN /\ result' = response
          /\ cpc' = "rejected"
          /\ UNCHANGED pc
     ELSE IF WantsStream(call)
          THEN /\ result' = [kind |-> "stream"]
               /\ cpc' = "returned"
               /\ pc' = "await"
          ELSE /\ result' = Shape(call.op, response.val)
               /\ cpc' = IF result'.kind = "error" THEN "rejected" ELSE "returned"
               /\ UNCHANGED pc
  /\ UNCHANGED <<config, apiKey, endpoint, call, encoded, sent, reqStream,
                 promise, response, status, data>>
  /\ UNCHANGED <<text, pos, src, buffer, lines, cur, emitted, err, seen, late, received, other>>

\* ------------------------------------------------------------------------
\* The client: one construction and one call
\* ------------------------------------------------------------------------
\* no other generator
NoDecoder ==
  [text |-> <<>>, pos |-> 0, src |-> "none", buffer |-> <<>>, lines |-> <<>>,
   cur |-> Undefined, pc |-> "idle", emitted |-> <<>>, err |-> "none",
   seen |-> <<>>, late |-> 0, received |-> <<>>]

NoCall == [op |-> "none", image |-> Undefined, stream |-> Absent]

Init ==
  /\ config \in Configs
  /\ apiKey = Absent
  /\ endpoint = Absent
  /\ cpc = "new"
  /\ call = NoCall
  /\ encoded = NotEncoded
  /\ sent = 0
  /\ reqStream = FALSE
  /\ promise = "none"
  /\ response = NoResult
  /\ status = 0
  /\ data = <<>>
  /\ result = NoResult
  /\ text = <<>>
  /\ pos = 0
  /\ src = "none"
  /\ buffer = <<>>
  /\ lines = <<>>
  /\ cur = Undefined
  /\ pc = "idle"
  /\ emitted = <<>>
  /\ err = "none"
  /\ seen = <<>>
  /\ late = 0
  /\ received = <<>>
  /\ other = NoDecoder

Next ==
  \/ Construct
  \/ \E r \in Requests : Call(r)
  \/ \E c \in CodecOutcomes : Encode(c)
  \/ AfterEncode
  \/ ReqError
  \/ \E st \in Statuses, b \in Bodies : OnResponse(st, b)
  \/ \E k \in 1..(Len(text) - pos) : OnData(k)
  \/ OnEnd
  \/ OnAborted
  \/ AfterRequest
  \/ \E k \in 1..(Len(text) - pos) : Chunk(k)
  \/ Resume
  \/ End
  \/ SourceError
  \/ LateBytes

Spec == Init /\ [][Next]_vars

\* ------------------------------------------------------------------------
\* The decoder alone, on every body of Texts
\* ------------------------------------------------------------------------
\* a streaming caption call has returned its generator
StreamCall == [op |-> "caption", image |-> SentinelImage, stream |-> "true"]

InitStream ==
  /\ config = [apiKey |-> "key", endpoint |-> Absent]
  /\ apiKey = "key"
  /\ endpoint = DEFAULT_ENDPOINT
  /\ cpc = "returned"
  /\ call = StreamCall
  /\ encoded = EncodeImage(SentinelImage, "jpeg")
  /\ sent = 1
  /\ reqStream = TRUE
  /\ promise = "resolved"
  /\ response = [kind |-> "res"]
  /\ status = 200
  /\ data = <<>>
  /\ result = [kind |-> "stream"]
  /\ text \in Texts
  /\ pos = 0
  /\ src = "open"
  /\ buffer = <<>>
  /\ lines = <<>>
  /\ cur = Undefined
  /\ pc = "await"
  /\ emitted = <<>>
  /\ err = "none"
  /\ seen = <<>>
  /\ late = 0
  /\ received = <<>>
  /\ other = NoDecoder

NextStream ==
  \/ \E k \in 1..(Len(text) - pos) : Chunk(k)
  \/ Resume
  \/ End
  \/ SourceError
  \/ LateBytes

SpecStream == InitStream /\ [][NextStream]_vars

\* ------------------------------------------------------------------------
\* The decoder with a response that goes on and a consumer that keeps asking
\* ------------------------------------------------------------------------
LiveTexts == {<<>>, LineChunkE, BodyFrames, BodyCutOff,
              LineChunkE \o <<NL>> \o LineBad, LineDone \o <<NL>> \o LineComment}

InitLive == InitStream /\ text \in LiveTexts

\* the generator waits at L120 for the response
Waiting == pc = "await" /\ src = "open"

\* the response does not leave the generator waiting for ever: its next
\* chunk arrives, or it ends, or it fails; and the consumer asks for the
\* next element of a suspended generator
SpecLive ==
  /\ InitLive
  /\ [][NextStream]_vars
  /\ []<>~Waiting
  /\ WF_vars(Resume)

\* ------------------------------------------------------------------------
\* Two streaming calls in flight on one client
\* ------------------------------------------------------------------------
\* the bodies of the two responses
\* data: {"chunk":"<U+00E9>"} / data: {
TextCutOff == LineChunkE \o <<NL>> \o LineBad
\* data: {"completed":true} / :
TextDone == LineDone \o <<NL>> \o LineComment
TwoTexts == {LineChunkE, TextCutOff, TextDone}

\* a generator whose call has returned and whose response is open (L117)
NewDecoder(body) ==
  [text |-> body, pos |-> 0, src |-> "open", buffer |-> <<>>, lines |-> <<>>,
   cur |-> Undefined, pc |-> "await", emitted |-> <<>>, err |-> "none",
   seen |-> <<>>, late |-> 0, received |-> <<>>]

\* the generator that runs: its response and the local variables of its
\* invocation of streamResponse
ThisDecoder ==
  [text |-> text, pos |-> pos, src |-> src, buffer |-> buffer, lines |-> lines,
   cur |-> cur, pc |-> pc, emitted |-> emitted, err |-> err, seen |-> seen,
   late |-> late, received |-> received]

\* two invocations of streamResponse that use one buffer
Switch_SharedBuffer ==
  /\ other # NoDecoder
  /\ other' = ThisDecoder
  /\ text' = other.text
  /\ pos' = other.pos
  /\ src' = other.src
  /\ buffer' = buffer
  /\ lines' = other.lines
  /\ cur' = other.cur
  /\ pc' = other.pc
  /\ emitted' = other.emitted
  /\ err' = other.err
  /\ seen' = other.seen
  /\ late' = other.late
  /\ received' = other.received
  /\ UNCHANGED clientVars

\* the event loop goes from one generator to the other: the next chunk, or
\* the next request of a consumer, is for the other call. Every invocation
\* of streamResponse has its own buffer (L117) and its own response
Switch ==
  /\ other # NoDecoder
  /\ other' = ThisDecoder
  /\ text' = other.text
  /\ pos' = other.pos
  /\ src' = other.src
  /\ buffer' = other.buffer
  /\ lines' = other.lines
  /\ cur' = other.cur
  /\ pc' = other.pc
  /\ emitted' = other.emitted
  /\ err' = other.err
  /\ seen' = other.seen
  /\ late' = other.late
  /\ received' = other.received
  /\ UNCHANGED clientVars

InitTwo ==
  /\ config = [apiKey |-> "key", endpoint |-> Absent]
  /\ apiKey = "key"
  /\ endpoint = DEFAULT_ENDPOINT
  /\ cpc = "returned"
  /\ call = StreamCall
  /\ encoded = EncodeImage(SentinelImage, "jpeg")
  /\ sent = 2
  /\ reqStream = TRUE
  /\ promise = "resolved"
  /\ response = [kind |-> "res"]
  /\ status = 200
  /\ data = <<>>
  /\ result = [kind |-> "stream"]
  /\ \E a \in TwoTexts, b \in TwoTexts :
        /\ text = a
        /\ other = NewDecoder(b)
  /\ pos = 0
  /\ src = "open"
  /\ buffer = <<>>
  /\ lines = <<>>
  /\ cur = Undefined
  /\ pc = "await"
  /\ emitted = <<>>
  /\ err = "none"
  /\ seen = <<>>
  /\ late = 0
  /\ received = <<>>

NextTwo ==
  \/ \E k \in 1..(Len(text) - pos) : Chunk(k)
  \/ Resume
  \/ End
  \/ SourceError
  \/ LateBytes
  \/ Switch

SpecTwo == InitTwo /\ [][NextTwo]_vars

\* ------------------------------------------------------------------------
\* Properties of streamResponse
\* ------------------------------------------------------------------------
\* the generator is suspended at a yield
Suspended == pc \in {"yield", "yieldFlush"}

\* line is a frame: `data: ` and a JSON object
IsFrame(line) ==
  /\ StartsWith(line, DataPrefix)
  /\ JSONParse(Slice(line, 6)).ok
  /\ JSONParse(Slice(line, 6)).val.t = "object"
FrameOf(line) == JSONParse(Slice(line, 6)).val
IsChunkFrame(line) == IsFrame(line) /\ ChunkKey \in DOMAIN FrameOf(line).m
ChunkOf(line) == FrameOf(line).m[ChunkKey]
IsCompletedFrame(line) ==
  /\ IsFrame(line)
  /\ CompletedKey \in DOMAIN FrameOf(line).m
  /\ FrameOf(line).m[CompletedKey].t = "true"
\* line begins with `data: ` and its payload is not JSON
IsMalformed(line) == StartsWith(line, DataPrefix) /\ ~JSONParse(Slice(line, 6)).ok

\* the chunk values of the frames among ls, in order
RECURSIVE ChunkValues(_)
ChunkValues(ls) ==
  IF ls = <<>> THEN <<>>
  ELSE (IF IsChunkFrame(Head(ls)) THEN <<ChunkOf(Head(ls))>> ELSE <<>>)
       \o ChunkValues(Tail(ls))

\* the generator has dealt with the i-th line it visited
Processed(i) == i < Len(seen) \/ ~Suspended

\* the generator run to its end on bytes given as ONE chunk: what it yields
\* and how it terminates
RECURSIVE Drain(_, _, _)
Drain(stop, mode, acc) ==
  IF stop.pc \in {"yield", "yieldFlush"}
  THEN Drain(AfterFrame(stop.cur, stop.lines, mode, stop.seen), mode, acc \o stop.out)
  ELSE [pc |-> stop.pc, out |-> acc \o stop.out]

OneChunk(bytes) ==
  LET ls == Split(ChunkToString(bytes))
      a == Drain(RunLines(CompleteLines(ls), "loop", <<>>), "loop", <<>>)
  IN  IF a.pc # "await" THEN a
      ELSE Drain(RunLines(FlushLines(Residual(ls)), "flush", <<>>), "flush", a.out)

\* C1: however the bytes of a body are split into chunks, the generator
\* yields the fragments, and terminates the way, it does when the whole body
\* is one chunk.
C1_ChunkingInvariance ==
  (Terminated /\ src # "errored") =>
     /\ emitted = OneChunk(text).out
     /\ pc = OneChunk(text).pc

\* C2: once a frame whose completed is true has been processed the
\* generator has returned, it visits no later line, and in every later state
\* (also once the rest of the body has arrived) the fragments are those of
\* the lines up to that frame.
C2_CompletedEnds ==
  \A i \in 1..Len(seen) :
     (IsCompletedFrame(seen[i]) /\ Processed(i)) =>
        /\ pc = "done"
        /\ err = "none"
        /\ i = Len(seen)
        /\ emitted = ChunkValues(seen)

C2_Witness ==
  /\ text = Join(<<LineChunkDone, LineChunkX>>)
  /\ pc = "done"
  /\ late > 0
  /\ Len(emitted) = 1

\* C3: when the stream ends with a frame that has a chunk in the buffer, the
\* generator yields that chunk after the earlier fragments and returns at
\* the next request; when it ends with an empty buffer the generator returns.
C3_EndOfStream ==
  [][/\ (pc = "await" /\ src = "open" /\ src' = "ended") =>
          /\ buffer = <<>> => (pc' = "done" /\ err' = "none" /\ emitted' = emitted)
          /\ IsChunkFrame(buffer) =>
                (pc' = "yieldFlush" /\ emitted' = Append(emitted, ChunkOf(buffer)))
     /\ pc = "yieldFlush" =>
          (pc' = "done" /\ err' = "none" /\ emitted' = emitted)]_vars

C3_Witness ==
  /\ src = "ended"
  /\ pc = "done"
  /\ IsChunkFrame(buffer)
  /\ Len(emitted) = 2
  /\ emitted[2] = ChunkOf(buffer)

\* C4: a line `data: ` with a payload that is not JSON makes the generator
\* throw: it is the last line visited, and the fragments are those of the
\* lines before it, in every later state.
C4_MalformedFails ==
  \A i \in 1..Len(seen) :
     IsMalformed(seen[i]) =>
        /\ pc = "failed"
        /\ err = "parse"
        /\ i = Len(seen)
        /\ emitted = ChunkValues(SubSeq(seen, 1, i - 1))

C4_Witness ==
  /\ text = Join(<<LineChunkX, LineBad>>)
  /\ pc = "failed"
  /\ err = "parse"
  /\ Len(emitted) = 1

\* the fragments a body stands for: the chunk values of its lines that
\* begin with `data: `, up to and including the first frame with completed
\* true, or up to the first line that is no frame
RECURSIVE Expected(_)
Expected(ls) ==
  IF ls = <<>> THEN <<>>
  ELSE IF ~StartsWith(Head(ls), DataPrefix) THEN Expected(Tail(ls))
  ELSE IF ~IsFrame(Head(ls)) THEN <<>>
  ELSE (IF IsChunkFrame(Head(ls)) THEN <<ChunkOf(Head(ls))>> ELSE <<>>)
       \o (IF IsCompletedFrame(Head(ls)) THEN <<>> ELSE Expected(Tail(ls)))

\* the lines of a body, its bytes decoded as one text
LinesOf(bytes) == Split(ChunkToString(bytes))

\* C5: when the generator has terminated on a body, the fragments it has
\* yielded are the chunk values of the body's `data: ` lines, in order, up
\* to the first completed frame or the first malformed line.
C5_ExactFragments ==
  (Terminated /\ src # "errored") => emitted = Expected(LinesOf(text))
\* ------------------------------------------------------------------------
\* Properties of makeRequest, the constructor and the dispatchers
\* ------------------------------------------------------------------------
\* the body is no frame stream: it has text and no line begins with `data: `
NoFrameStream(bytes) ==
  /\ bytes # <<>>
  /\ \A i \in 1..Len(LinesOf(bytes)) : ~StartsWith(LinesOf(bytes)[i], DataPrefix)

\* C6: a streaming makeRequest resolves with the response whatever its
\* status, and when the status is an error status (4xx, 5xx) or the body is
\* no frame stream, the generator that reads the response terminates by
\* throwing for a malformed frame.
C6_StreamErrorSurfaces ==
  /\ (reqStream /\ status # 0) => (promise = "resolved" /\ response.kind = "res")
  /\ (/\ reqStream
      /\ status >= 400 \/ NoFrameStream(text)
      /\ Terminated
      /\ src # "errored") =>
        (pc = "failed" /\ err = "parse")

\* C7: once a buffered response has ended, the promise is rejected for the
\* status when the status is not 200, whatever the body; rejected for the
\* parse when the status is 200 and the buffered body is not JSON; and
\* resolved with the parsed body otherwise.
C7_BufferedSettles ==
  (~reqStream /\ src = "ended") =>
     /\ pos = Len(text)
     /\ status # 200 => (promise = "rejected" /\ response = Failure("status"))
     /\ (status = 200 /\ ~JSONParse(data).ok) =>
           (promise = "rejected" /\ response = Failure("parse"))
     /\ (status = 200 /\ JSONParse(data).ok) =>
           /\ promise = "resolved"
           /\ response = [kind |-> "json", val |-> JSONParse(data).val]

C7_Witness ==
  /\ ~reqStream
  /\ src = "ended"
  /\ status = 401
  /\ ~JSONParse(data).ok
  /\ data # <<>>
  /\ promise = "rejected"
  /\ response = Failure("status")

\* C8: when the network fails during a call that has sent its request
\* (before the response, or after the response began and before its end),
\* the promise of a buffered makeRequest is rejected.
C8_NetworkFailureRejects ==
  (sent > 0 /\ ~reqStream /\ src = "errored") => promise = "rejected"

\* C9: the constructor throws exactly when the config has no apiKey (absent
\* or '') and its endpoint is absent, '' or the default endpoint, and then
\* no request has been sent.
C9_ConstructorThrows ==
  cpc # "new" =>
     /\ cpc = "ctorThrew" <=>
          (/\ config.apiKey \in {Absent, ""}
           /\ config.endpoint \in {Absent, "", DEFAULT_ENDPOINT})
     /\ cpc = "ctorThrew" => sent = 0

C9_Witness ==
  /\ cpc = "ctorThrew"
  /\ config.apiKey = Absent
  /\ config.endpoint = DEFAULT_ENDPOINT

\* C10: a call with an image has sent its request only after encodeImage
\* succeeded; when encodeImage failed no request is sent, makeRequest has
\* not been called, and the call rejects with the encoding error.
C10_EncodeBeforeRequest ==
  /\ (call.image # Undefined /\ sent > 0) => encoded.st = "ok"
  /\ encoded.st = "failed" =>
        /\ sent = 0
        /\ promise = "none"
        /\ cpc \in {"encoded", "rejected"}
        /\ cpc = "rejected" => result = Failure("encoding")

C10_Witness ==
  /\ cpc = "rejected"
  /\ encoded.st = "failed"
  /\ call.op = "detect"
  /\ sent = 0
  /\ result = Failure("encoding")

\* C11: encodeImage of an image that carries imageUrl returns that image
\* and does not call the codec; and what a successful encodeImage returned
\* is returned unchanged by encodeImage again, whatever the codec would do,
\* without a call of the codec.
C11_EncodeIdempotent ==
  /\ (encoded.st # "none" /\ "imageUrl" \in DOMAIN call.image) =>
        encoded = [st |-> "ok", val |-> call.image, codec |-> 0]
  /\ encoded.st = "ok" =>
        \A c \in CodecOutcomes :
           EncodeImage(encoded.val, c) = [st |-> "ok", val |-> encoded.val, codec |-> 0]

C11_Witness ==
  /\ cpc = "requesting"
  /\ call.image = EmptyUrlImage
  /\ encoded.st = "ok"
  /\ encoded.val = EmptyUrlImage
  /\ encoded.codec = 0

\* C12: detect and point call makeRequest in buffered mode and return a
\* plain value, never a generator, whatever stream field the request has;
\* caption and query call makeRequest in streaming mode exactly when
\* request.stream is true, and return a generator exactly then.
C12_StreamingOnlyOnRequest ==
  /\ sent > 0 =>
        (reqStream <=> (call.op \in {"caption", "query"} /\ call.stream = "true"))
  /\ cpc = "returned" =>
        /\ result.kind \in {"stream", "value"}
        /\ result.kind = "stream" <=>
              (call.op \in {"caption", "query"} /\ call.stream = "true")
  /\ pc # "idle" => (call.op \in {"caption", "query"} /\ call.stream = "true")

C12_Witness ==
  /\ call.op = "detect"
  /\ call.stream = "true"
  /\ cpc = "returned"
  /\ ~reqStream
  /\ result.kind = "value"
  /\ pc = "idle"

\* C13 as claimed: when a call has failed, or the generator of a streaming
\* call has thrown, the caller has received no fragment and no value.
C13_NoPartialResult ==
  /\ cpc = "rejected" => (result.kind = "error" /\ emitted = <<>>)
  /\ pc = "failed" => emitted = <<>>

\* C13 as amended: a call that rejects gives its caller the error alone:
\* no value, no generator and no fragment; a call that returned gave a value
\* or a generator and no error; and when the generator of a streaming call
\* has thrown, the fragments its caller has are those of the frames visited
\* before the throw, the throw itself came with no fragment.
C13_FailureAddsNoResult ==
  /\ cpc = "rejected" => (result.kind = "error" /\ emitted = <<>> /\ pc = "idle")
  /\ cpc = "returned" => result.kind \in {"value", "stream"}
  /\ pc = "failed" => emitted = ChunkValues(seen)

C13_Witness ==
  /\ call.op = "query"
  /\ text = BodyCutOff
  /\ pc = "failed"
  /\ err = "parse"
  /\ Len(emitted) = 1
  /\ Len(seen) = 2

\* ------------------------------------------------------------------------
\* More properties of streamResponse
\* ------------------------------------------------------------------------
\* what ends the sequence in a step: the step has dealt with a frame that
\* has the completion flag (one it visited, or the one it was suspended at),
\* it has visited a line `data: ` whose payload is no JSON object, the byte
\* stream has ended and its last line has been dealt with, or the byte
\* stream has failed
EndCause ==
  \/ \E i \in (IF Suspended THEN Len(seen) ELSE Len(seen) + 1)..Len(seen') :
        /\ StartsWith(seen'[i], DataPrefix)
        /\ \E p \in {JSONParse(Slice(seen'[i], 6))} :
              \/ ~p.ok
              \/ p.val.t # "object"
              \/ /\ CompletedKey \in DOMAIN p.val.m
                 /\ p.val.m[CompletedKey].t = "true"
                 /\ i < Len(seen') \/ pc' \notin {"yield", "yieldFlush"}
  \/ src' = "ended" /\ pc' \notin {"yield", "yieldFlush"}
  \/ src' = "errored"

\* C14: the generator waits for data, yields one fragment at a time and
\* goes on, until it returns or throws; it has returned or thrown as soon
\* as a step meets something that ends the sequence (completion flag, end
\* of stream, error); and from then on nothing of it changes: it reads no further chunk (the
\* buffer and the lines visited stay), it yields no fragment and throws no
\* new error.
C14_StateMachine ==
  [][/\ pc \in {"await", "yield", "yieldFlush", "done", "failed"}
     /\ pc' \in {"done", "failed"} \/ ~EndCause
     /\ Terminated =>
          /\ pc' = pc
          /\ err' = err
          /\ emitted' = emitted
          /\ buffer' = buffer
          /\ seen' = seen
          /\ lines' = lines
          /\ src' = src
     /\ emitted' # emitted =>
          /\ pc' \in {"yield", "yieldFlush"}
          /\ emitted' = Append(emitted, cur'.m[ChunkKey])
     /\ pc' \in {"yield", "yieldFlush"} => Len(emitted') = Len(emitted) + 1
     /\ pc' = "done" => err' = "none"
     /\ pc' = "failed" => err' \in {"parse", "source"}]_vars

C14_Witness ==
  /\ text = Join(<<LineBad, LineChunkX>>)
  /\ pc = "failed"
  /\ err = "parse"
  /\ emitted = <<>>
  /\ late > 0

\* the lines among ls that begin with `data: `
DataLines(ls) == SelectSeq(ls, LAMBDA line : StartsWith(line, DataPrefix))

\* C15: a line that does not begin with `data: `, complete or left in the
\* buffer at the end of the stream, is passed over: the fragments yielded
\* are those of the lines visited that begin with `data: `, as if the other
\* lines were not there; a parse error comes from a line that begins with
\* `data: ` only; and the generator does not stop at such a line unless the
\* byte stream ended or failed there.
C15_NonDataSkipped ==
  /\ emitted = ChunkValues(DataLines(seen))
  /\ err = "parse" => (seen # <<>> /\ StartsWith(seen[Len(seen)], DataPrefix))
  /\ (Terminated /\ seen # <<>> /\ ~StartsWith(seen[Len(seen)], DataPrefix)) =>
        \/ src = "ended" /\ pc = "done"
        \/ src = "errored" /\ err = "source"

C15_Witness ==
  /\ seen = <<LineChunkX, LineComment>>
  /\ buffer = LineComment
  /\ src = "ended"
  /\ pc = "done"
  /\ Len(emitted) = 1

\* the generator run to its end, alone, on a text given as one chunk: what
\* it yields and how it terminates
OneText(str) ==
  LET ls == Split(str)
      a == Drain(RunLines(CompleteLines(ls), "loop", <<>>), "loop", <<>>)
  IN  IF a.pc # "await" THEN a
      ELSE Drain(RunLines(FlushLines(Residual(ls)), "flush", <<>>), "flush", a.out)

\* the generator d has, of its own text alone, the buffer, the fragments
\* and the outcome a generator that runs alone on that text has
Alone(d) ==
  /\ d.pc \notin {"done", "failed"} => d.buffer = Residual(Split(d.received))
  /\ (d.pc \in {"done", "failed"} /\ d.src # "errored") =>
        /\ d.emitted = OneText(d.received).out
        /\ d.pc = OneText(d.received).pc
  /\ d.src = "errored" =>
        /\ d.pc = "failed"
        /\ d.err = "source"
        /\ d.emitted =
              Drain(RunLines(CompleteLines(Split(d.received)), "loop", <<>>), "loop", <<>>).out

\* C16: with two streaming calls in flight on one client, whatever the
\* order in which their chunks arrive and their consumers ask, each of the
\* two generators has the buffer, the fragments and the outcome it has when
\* it runs alone on the text it received; and apiKey and endpoint are what
\* the constructor set.
C16_Independent ==
  /\ Alone(ThisDecoder)
  /\ Alone(other)
  /\ apiKey = OrElse(config.apiKey, "")
  /\ endpoint = OrElse(config.endpoint, DEFAULT_ENDPOINT)

C16_Witness ==
  /\ text = TextCutOff
  /\ pc = "failed"
  /\ err = "parse"
  /\ Len(emitted) = 1
  /\ buffer = LineBad
  /\ other.text = TextDone
  /\ other.pc = "done"
  /\ other.emitted = <<>>
  /\ other.buffer = <<>>
  /\ other.late > 0

\* where the line breaks of a text are
NLIndices(str) == {i \in 1..Len(str) : str[i] = NL}
LastNL(str) ==
  IF NLIndices(str) = {} THEN 0
  ELSE CHOOSE i \in NLIndices(str) : \A j \in NLIndices(str) : j <= i
\* the text after the last line break
AfterLastNL(str) == SubSeq(str, LastNL(str) + 1, Len(str))
\* the segments of a text from index i on that a line break ends
RECURSIVE SegmentsFrom(_, _)
SegmentsFrom(str, i) ==
  LET nls == {j \in NLIndices(str) : j >= i} IN
  IF nls = {} THEN <<>>
  ELSE LET n == CHOOSE j \in nls : \A k \in nls : j <= k
       IN  <<SubSeq(str, i, n - 1)>> \o SegmentsFrom(str, n + 1)
IsPrefix(a, b) == Len(a) <= Len(b) /\ a = SubSeq(b, 1, Len(a))

\* C17: the buffer has no line break and is the text received so far after
\* its last line break (empty when the text ends with a line break); and
\* the segments before it are the lines the generator has visited or, while
\* it is suspended at a yield, has still to visit, each once and in order
\* (with the buffer itself as the last line once the stream has ended); a
\* generator that has returned or thrown has visited the first of them.
C17_ResidualBuffer ==
  /\ NLIndices(buffer) = {}
  /\ buffer = AfterLastNL(received)
  /\ LET segs == SegmentsFrom(received, 1)
         all == IF src = "ended" /\ buffer # <<>> THEN Append(segs, buffer) ELSE segs
     IN  IF Terminated THEN IsPrefix(seen, all) ELSE seen \o lines = all

C17_Witness ==
  /\ text = Join(<<LineChunkX, LineChunkE>>)
  /\ pc = "await"
  /\ Len(seen) = 1
  /\ Len(emitted) = 1
  /\ buffer # <<>>
  /\ Len(received) = Len(LineChunkX) + 1 + Len(buffer)

\* C18: with a response that delivers its bytes and then ends, or fails,
\* and a consumer that keeps asking, the generator eventually returns or
\* throws; every fragment it yields comes from a line of its own, so there
\* are no more fragments than lines visited; once the response has ended or
\* failed the generator does not wait for a chunk; and when the response
\* has failed the generator has thrown for it.
C18_Terminates ==
  /\ <>Terminated
  /\ [](Len(emitted) <= Len(seen))
  /\ [](src \in {"ended", "errored"} => pc # "await")
  /\ [](src = "errored" => (pc = "failed" /\ err = "source"))

C18_Witness ==
  /\ text = BodyCutOff
  /\ src = "errored"
  /\ pc = "failed"
  /\ err = "source"
  /\ Len(emitted) = 1

\* C19: a frame that has a chunk and completed true: once the generator
\* has visited its line, the chunk is the last fragment yielded, the
\* fragments are those of the lines visited, one for each frame with a
\* chunk, no line is visited after it, and the generator is suspended at the
\* yield of that chunk or has returned without an error.
C19_LastFragment ==
  \A i \in 1..Len(seen) :
     (IsChunkFrame(seen[i]) /\ IsCompletedFrame(seen[i])) =>
        /\ i = Len(seen)
        /\ emitted # <<>>
        /\ emitted[Len(emitted)] = ChunkOf(seen[i])
        /\ emitted = ChunkValues(seen)
        /\ pc \in {"yield", "yieldFlush", "done"}
        /\ err = "none"

C19_Witness ==
  /\ text = Join(<<LineChunkX, LineChunkDone>>)
  /\ seen = <<LineChunkX, LineChunkDone>>
  /\ pc = "done"
  /\ src = "open"
  /\ Len(emitted) = 2
  /\ emitted[2] = ChunkOf(LineChunkDone)

====
